---------------------------- MODULE Spec2Model ----------------------------
(***************************************************************************)
(* Model of the auto-lg-flow provisioning scripts:                         *)
(*   main.py                      the orchestrator                         *)
(*   lg/auto_key.py               the Issuer     (LangSmith service key)   *)
(*   1password/auto_1password.py  the Publisher  (vault item + share link) *)
(*   apisix/auto_as_add.py        the Registrar  (consumer + allow-list)   *)
(*   jira/auto_jira_comment.py    the ticket-comment script                *)
(* Every script is a process whose steps are its external calls (HTTP      *)
(* requests, op commands, child processes); the external systems are the   *)
(* shared state.  An exit code of -1 means "still running".                *)
(***************************************************************************)
EXTENDS Integers, Sequences, FiniteSets, TLC

VARIABLES
    environ,        \* os.environ: variable name -> value (absent = unset)
    opSignedIn,     \* whether `op whoami` succeeds
    workspaces,     \* LangSmith: list of workspaces
    roles,          \* LangSmith: list of org roles
    apiKeys,        \* LangSmith: list of service keys
    vaultItems,     \* 1Password: list of items
    shareLinks,     \* 1Password: list of share links
    consumers,      \* APISIX: username -> consumer document
    routePlugins,   \* APISIX: plugin block of route ROUTE_ID
    jiraComments,   \* Jira: list of comments
    orch,           \* main.py process
    iss,            \* lg/auto_key.py process
    pub,            \* 1password/auto_1password.py process
    reg,            \* apisix/auto_as_add.py processes
    jira            \* jira/auto_jira_comment.py process

vars == <<environ, opSignedIn, workspaces, roles, apiKeys, vaultItems,
          shareLinks, consumers, routePlugins, jiraComments,
          orch, iss, pub, reg, jira>>

langsmith == <<workspaces, roles, apiKeys>>
vault     == <<vaultItems, shareLinks>>
apisix    == <<consumers, routePlugins>>
hostenv   == <<environ, opSignedIn>>

---------------------------------------------------------------------------
(* Bounds of the model.                                                    *)

\* orchestrator / script runs in one behaviour
MaxRuns == 2
\* entries of the route allow-list in the initial state
MaxWhitelist == 2
\* runs of the Publisher on its own in one behaviour
PublisherRuns == 1
\* tokens of an `op item create` output (standalone Publisher)
MaxOutTokens == 4
\* tokens of an `op item create` output (Publisher under the orchestrator)
OrchOutTokens == 2

---------------------------------------------------------------------------
(* Generic helpers: Python dict / list idioms.                             *)

EmptyDict == [k \in {} |-> 0]

\* d.get(k, default)
Get(d, k, default) == IF k \in DOMAIN d THEN d[k] ELSE default

\* d[k] = v
SetKey(d, k, v) == [x \in (DOMAIN d) \cup {k} |-> IF x = k THEN v ELSE d[x]]

\* x in list
InList(x, list) == \E i \in 1..Len(list) : list[i] = x

\* all sequences over S of length <= n
RECURSIVE SeqsUpTo(_, _)
SeqsUpTo(S, n) ==
    IF n = 0 THEN {<<>>}
    ELSE LET shorter == SeqsUpTo(S, n - 1)
         IN  shorter \cup {Append(s, x) : s \in shorter, x \in S}

NoDup(s) == \A i, j \in 1..Len(s) : i # j => s[i] # s[j]

---------------------------------------------------------------------------
(* lg/auto_key.py : the Issuer.                                            *)

WORKSPACE_NAME == "nsagent-users"

\* the KEY_VALUES a key-creation response can carry ("" = an empty key)
KeyValues == {"", "lsv2_a"}

Branches == {"feature-42", "alice"}
Emails   == {"a@x.com"}

\* os.getenv("LANGSMITH_ADMIN_API_KEY")
ADMIN_API_KEY(env) == Get(env, "LANGSMITH_ADMIN_API_KEY", "")

\* os.getenv("LANGSMITH_ORG_ID", <default>)
ORG_ID(env) == Get(env, "LANGSMITH_ORG_ID", "d84d3d4c")

\* the first of the matching indices of a linear search, 0 when none matches
FirstIndex(matching) ==
    IF matching = {} THEN 0
    ELSE CHOOSE i \in matching : \A j \in matching : i <= j

workspace_exists_always(wss, name) ==
    [exists |-> TRUE, id |-> IF Len(wss) > 0 THEN wss[1].id ELSE "ws-none"]

\* LangSmithManager.workspace_exists: (exists, workspace_id)
workspace_exists(wss, name) ==
    LET i == FirstIndex({j \in 1..Len(wss) : wss[j].display_name = name})
    IN  IF i # 0 THEN [exists |-> TRUE, id |-> wss[i].id]
        ELSE [exists |-> FALSE, id |-> "None"]

key_exists_never(keys, description) == [exists |-> FALSE, id |-> "None"]

\* LangSmithManager.key_exists: (exists, key_id)
key_exists(keys, description) ==
    LET i == FirstIndex({j \in 1..Len(keys) :
                            keys[j].description = description})
    IN  IF i # 0 THEN [exists |-> TRUE, id |-> keys[i].id]
        ELSE [exists |-> FALSE, id |-> "None"]

ws_role_by_name(rs) ==
    LET i == FirstIndex({j \in 1..Len(rs) : rs[j].name = "WORKSPACE_USER"})
    IN  IF i # 0 THEN [found |-> TRUE, id |-> rs[i].id]
        ELSE [found |-> FALSE, id |-> "None"]

\* create_api_key: next(r for r in roles if name == WORKSPACE_USER and
\* access_scope == workspace, None)
ws_role(rs) ==
    LET i == FirstIndex({j \in 1..Len(rs) :
                            /\ rs[j].name = "WORKSPACE_USER"
                            /\ rs[j].access_scope = "workspace"})
    IN  IF i # 0 THEN [found |-> TRUE, id |-> rs[i].id]
        ELSE [found |-> FALSE, id |-> "None"]

\* the JSON body of POST /api/v1/api-key, stored by the service with the
\* secret it generated
NewKey(description, workspace_id, role_id, key, n) ==
    [id |-> n, description |-> description, workspaces |-> <<workspace_id>>,
     role_id |-> role_id, key |-> key]

IssOff == [pc |-> "off", description |-> "", ws_id |-> "None",
           role_id |-> "None", stdout |-> <<>>, exit |-> -1, reqs |-> <<>>,
           keys0 |-> <<>>, runs |-> 0]

\* a fresh Issuer process: python lg/auto_key.py -d <description>
IssSpawn(description) ==
    [IssOff EXCEPT !.pc = "main", !.description = description,
                   !.keys0 = apiKeys, !.runs = iss.runs + 1]

IssExit(p, code) == [p EXCEPT !.pc = "exited", !.exit = code]

IssReq(p, method, endpoint) ==
    [p EXCEPT !.reqs = Append(@, <<method, endpoint>>)]

\* main(), lines 128-144: environment check, argument parsing
IssuerMain ==
    /\ iss.pc = "main"
    /\ iss' = IF ADMIN_API_KEY(environ) = "" \/ ORG_ID(environ) = ""
              THEN IssExit(iss, 1)
              ELSE [iss EXCEPT !.pc = "workspace_exists"]
    /\ UNCHANGED <<hostenv, langsmith, vault, apisix, jiraComments,
                   orch, pub, reg, jira>>

\* auto_create step 1: GET /api/v1/workspaces, linear search by display name
IssuerWorkspaceExists(ok) ==
    /\ iss.pc = "workspace_exists"
    /\ LET p == IssReq(iss, "GET", "/api/v1/workspaces")
           r == workspace_exists(workspaces, WORKSPACE_NAME)
       IN  iss' = IF ~ok THEN IssExit(p, 1)
                  ELSE IF ~r.exists THEN IssExit(p, 1)
                  ELSE [p EXCEPT !.pc = "key_exists", !.ws_id = r.id]
    /\ UNCHANGED <<hostenv, langsmith, vault, apisix, jiraComments,
                   orch, pub, reg, jira>>

\* auto_create step 2: GET /api/v1/api-key, linear search by description
IssuerKeyExists(ok) ==
    /\ iss.pc = "key_exists"
    /\ LET p == IssReq(iss, "GET", "/api/v1/api-key")
           r == key_exists(apiKeys, iss.description)
       IN  iss' = IF ~ok THEN IssExit(p, 1)
                  ELSE IF r.exists THEN IssExit(p, 1)
                  ELSE [p EXCEPT !.pc = "roles"]
    /\ UNCHANGED <<hostenv, langsmith, vault, apisix, jiraComments,
                   orch, pub, reg, jira>>

\* create_api_key, first half: GET /api/v1/orgs/current/roles
IssuerRoles(ok) ==
    /\ iss.pc = "roles"
    /\ LET p == IssReq(iss, "GET", "/api/v1/orgs/current/roles")
           r == ws_role(roles)
       IN  iss' = IF ~ok THEN IssExit(p, 1)
                  ELSE IF ~r.found THEN IssExit(p, 1)
                  ELSE [p EXCEPT !.pc = "create", !.role_id = r.id]
    /\ UNCHANGED <<hostenv, langsmith, vault, apisix, jiraComments,
                   orch, pub, reg, jira>>

\* create_api_key, second half: POST /api/v1/api-key; main prints the key
IssuerCreate(ok, key) ==
    /\ iss.pc = "create"
    /\ LET p == IssReq(iss, "POST", "/api/v1/api-key")
       IN  IF ok
           THEN /\ apiKeys' = Append(apiKeys,
                        NewKey(iss.description, iss.ws_id, iss.role_id, key,
                               Len(apiKeys) + 1))
                /\ iss' = IssExit([p EXCEPT !.stdout = <<key>>], 0)
           ELSE /\ apiKeys' = apiKeys
                /\ iss' = IssExit(p, 1)
    /\ UNCHANGED <<hostenv, workspaces, roles, vault, apisix, jiraComments,
                   orch, pub, reg, jira>>

\* one step of the Issuer process
IssuerStep ==
    \/ IssuerMain
    \/ \E ok \in BOOLEAN : IssuerWorkspaceExists(ok)
    \/ \E ok \in BOOLEAN : IssuerKeyExists(ok)
    \/ \E ok \in BOOLEAN : IssuerRoles(ok)
    \/ \E ok \in BOOLEAN, key \in KeyValues : IssuerCreate(ok, key)

---------------------------------------------------------------------------
(* 1password/auto_1password.py : the Publisher.                            *)
(* The text an op command prints is a sequence of characters, so that the  *)
(* pattern match of create_and_share_item is computed and not assumed.     *)

Whitespace == {" ", "\n"}
Alnum      == {"I", "D", "a"}

\* the pieces `op item create` outputs are built from
OutTokens == {<<"I", "D", ":">>, <<"a">>, <<" ">>, <<"\n">>, <<"-">>}

RECURSIVE Texts(_)
Texts(n) ==
    IF n = 0 THEN {<<>>}
    ELSE LET shorter == Texts(n - 1)
         IN  shorter \cup {s \o t : s \in shorter, t \in OutTokens}

\* text[i..j]
Slice(text, i, j) == SubSeq(text, i, j)

\* str.strip()
strip(text) ==
    LET keep == {i \in 1..Len(text) : text[i] \notin Whitespace}
    IN  IF keep = {} THEN <<>>
        ELSE LET lo == CHOOSE i \in keep : \A j \in keep : i <= j
                 hi == CHOOSE i \in keep : \A j \in keep : j <= i
             IN  Slice(text, lo, hi)

\* first index >= i whose character is not in class (Len + 1 at the end)
SkipWhile(text, i, class) ==
    LET stop == {j \in i..Len(text) : text[j] \notin class}
    IN  IF stop = {} THEN Len(text) + 1
        ELSE CHOOSE j \in stop : \A k \in stop : j <= k

\* whether ^ID:\s*([a-zA-Z0-9]+) matches at position i (re.MULTILINE)
MatchesAt(text, i) ==
    /\ i = 1 \/ text[i - 1] = "\n"
    /\ i + 2 <= Len(text)
    /\ Slice(text, i, i + 2) = <<"I", "D", ":">>
    /\ LET g == SkipWhile(text, i + 3, Whitespace)
       IN  g <= Len(text) /\ text[g] \in Alnum

\* re.search(r'^ID:\s*([a-zA-Z0-9]+)', create_output, re.MULTILINE):
\* matched, and group(1) of the leftmost match
re_search(text) ==
    LET at == {i \in 1..Len(text) : MatchesAt(text, i)}
    IN  IF at = {} THEN [matched |-> FALSE, group |-> <<>>]
        ELSE LET i == CHOOSE x \in at : \A y \in at : x <= y
                 g == SkipWhile(text, i + 3, Whitespace)
                 e == SkipWhile(text, g, Alnum)
             IN  [matched |-> TRUE, group |-> Slice(text, g, e - 1)]

\* what `op item share` prints: the link ("" = nothing)
ShareOutputs == {"", "https://share.1password.com/s#1"}

PubOff == [pc |-> "off", branch_name |-> "", lg_key |-> "", share_to |-> "",
           created |-> FALSE, create_output |-> <<>>, ITEM_ID |-> <<>>,
           stdout |-> <<>>,
           exit |-> -1, cmds |-> <<>>, runs |-> 0]

\* a fresh Publisher process:
\* python 1password/auto_1password.py <branch_name> <lg_key> <share_to>
PubSpawn(branch_name, lg_key, share_to) ==
    [PubOff EXCEPT !.pc = "create", !.branch_name = branch_name,
                   !.lg_key = lg_key, !.share_to = share_to,
                   !.runs = pub.runs + 1]

PubExit(p, code) == [p EXCEPT !.pc = "exited", !.exit = code]

\* create_command, lines 57-63
create_command(branch_name, lg_key) ==
    [op |-> "item create", vault |-> "LangGraphKeys", title |-> branch_name,
     category |-> "API Credential", password |-> lg_key]

\* share_command, lines 78-82
share_command(ITEM_ID, share_to) ==
    [op |-> "item share", item |-> ITEM_ID, emails |-> share_to,
     expires_in |-> "7d"]

\* create_and_share_item, step 1: op item create, then the pattern match
PublisherCreate(ok, out) ==
    /\ pub.pc = "create"
    /\ LET p == [pub EXCEPT !.cmds = Append(@,
                        create_command(pub.branch_name, pub.lg_key))]
           create_output == strip(out)
           match == re_search(create_output)
       IN  IF ~ok
           THEN /\ vaultItems' = vaultItems
                /\ pub' = PubExit(p, 1)
           ELSE /\ vaultItems' = Append(vaultItems,
                        [title |-> pub.branch_name, password |-> pub.lg_key])
                /\ pub' = IF ~match.matched
                          THEN PubExit([p EXCEPT !.created = TRUE,
                                  !.create_output = create_output], 1)
                          ELSE [p EXCEPT !.pc = "share", !.created = TRUE,
                                  !.create_output = create_output,
                                  !.ITEM_ID = match.group]
    /\ UNCHANGED <<hostenv, langsmith, shareLinks, apisix, jiraComments,
                   orch, iss, reg, jira>>

\* create_and_share_item, step 2: op item share; main prints the link
PublisherShare(ok, link) ==
    /\ pub.pc = "share"
    /\ LET p == [pub EXCEPT !.cmds = Append(@,
                        share_command(pub.ITEM_ID, pub.share_to))]
       IN  IF ~ok
           THEN /\ shareLinks' = shareLinks
                /\ pub' = PubExit(p, 1)
           ELSE /\ shareLinks' = Append(shareLinks,
                        [item |-> pub.ITEM_ID, emails |-> pub.share_to])
                /\ pub' = PubExit([p EXCEPT !.stdout = <<link>>], 0)
    /\ UNCHANGED <<hostenv, langsmith, vaultItems, apisix, jiraComments,
                   orch, iss, reg, jira>>

\* one step of the Publisher process, its create output of at most n tokens
PublisherStep(n) ==
    \/ \E ok \in BOOLEAN, out \in Texts(n) : PublisherCreate(ok, out)
    \/ \E ok \in BOOLEAN, link \in ShareOutputs : PublisherShare(ok, link)

---------------------------------------------------------------------------
(* apisix/auto_as_add.py : the Registrar.                                  *)

ROUTE_ID == "00000000000000000020"

RegProcs == {1, 2}

\* consumer names the allow-list and the Registrar's argument range over
Usernames == Branches \cup {"bob"}

\* the JSON body of PUT /consumers/<username>, lines 41-48
consumer_data(username) ==
    [username |-> username,
     plugins  |-> ("key-auth" :> [key |-> username])]

\* old_whitelist, lines 78-80
old_whitelist(existing_plugins) ==
    LET consumer_restriction ==
            Get(existing_plugins, "consumer-restriction", EmptyDict)
    IN  Get(consumer_restriction, "whitelist", <<>>)

patch_data_restriction_only(existing_plugins, username_to_add) ==
    LET new_whitelist == old_whitelist(existing_plugins) \o <<username_to_add>>
    IN  [plugins |-> ("consumer-restriction" :> ("whitelist" :> new_whitelist))]

\* patch_data, lines 87-94.  consumer_restriction is the dict held by
\* existing_plugins when the entry is there, and a fresh dict otherwise: the
\* assignment of line 90 reaches existing_plugins only in the first case.
patch_data(existing_plugins, username_to_add) ==
    LET new_whitelist == old_whitelist(existing_plugins) \o <<username_to_add>>
    IN  IF "consumer-restriction" \in DOMAIN existing_plugins
        THEN [plugins |-> [existing_plugins EXCEPT !["consumer-restriction"] =
                              SetKey(@, "whitelist", new_whitelist)]]
        ELSE [plugins |-> existing_plugins]

skip_update_never(username_to_add, whitelist) == FALSE

\* line 83: username_to_add in old_whitelist
skip_update(username_to_add, whitelist) == InList(username_to_add, whitelist)

RegOff == [pc |-> "off", username |-> "", existing_plugins |-> EmptyDict,
           patch |-> [plugins |-> EmptyDict], exit |-> -1, reqs |-> <<>>,
           skipped |-> FALSE, raced |-> FALSE, runs |-> 0]

\* a fresh Registrar process: python apisix/auto_as_add.py <consumer_name>
RegSpawn(p, consumer_name) ==
    [RegOff EXCEPT !.pc = "main", !.username = consumer_name,
                   !.runs = reg[p].runs + 1]

RegExit(r, code) == [r EXCEPT !.pc = "exited", !.exit = code]

RegReq(r, method, target, body) ==
    [r EXCEPT !.reqs = Append(@, [method |-> method, target |-> target,
                                  body |-> body])]

\* main, line 122: get_admin_key()
RegistrarMain(p) ==
    /\ reg[p].pc = "main"
    /\ reg' = [reg EXCEPT ![p] =
                 IF Get(environ, "APISIX_ADMIN_API_KEY", "") = ""
                 THEN RegExit(@, 1)
                 ELSE [@ EXCEPT !.pc = "put"]]
    /\ UNCHANGED <<hostenv, langsmith, vault, apisix, jiraComments,
                   orch, iss, pub, jira>>

\* create_consumer_and_key_auth: PUT /consumers/<username>
RegistrarPut(p, ok) ==
    /\ reg[p].pc = "put"
    /\ LET u == reg[p].username
           r == RegReq(reg[p], "PUT", "consumers", consumer_data(u))
       IN  IF ok
           THEN /\ consumers' = SetKey(consumers, u, consumer_data(u))
                /\ reg' = [reg EXCEPT ![p] = [r EXCEPT !.pc = "get"]]
           ELSE /\ consumers' = consumers
                /\ reg' = [reg EXCEPT ![p] = RegExit(r, 1)]
    /\ UNCHANGED <<hostenv, langsmith, vault, routePlugins, jiraComments,
                   orch, iss, pub, jira>>

\* update_route_whitelist, lines 66-94: GET /routes/<ROUTE_ID>, the
\* membership test, and the construction of patch_data.  raced records that
\* this GET fell between another run's GET and its PATCH.
RegistrarGet(p, ok) ==
    /\ reg[p].pc = "get"
    /\ LET u == reg[p].username
           r == RegReq(reg[p], "GET", "routes", EmptyDict)
       IN  reg' = [reg EXCEPT ![p] =
                 IF ~ok THEN RegExit(r, 1)
                 ELSE IF skip_update(u, old_whitelist(routePlugins))
                 THEN RegExit([r EXCEPT !.existing_plugins = routePlugins,
                                        !.skipped = TRUE], 0)
                 ELSE [r EXCEPT !.pc = "patch",
                                !.existing_plugins = routePlugins,
                                !.patch = patch_data(routePlugins, u),
                                !.raced = \E q \in RegProcs \ {p} :
                                             reg[q].pc = "patch"]]
    /\ UNCHANGED <<hostenv, langsmith, vault, apisix, jiraComments,
                   orch, iss, pub, jira>>

\* update_route_whitelist, lines 96-106: PATCH /routes/<ROUTE_ID>; the
\* gateway replaces the route's plugin block by the one sent
RegistrarPatch(p, ok) ==
    /\ reg[p].pc = "patch"
    /\ LET r == RegReq(reg[p], "PATCH", "routes", reg[p].patch)
       IN  IF ok
           THEN /\ routePlugins' = reg[p].patch.plugins
                /\ reg' = [reg EXCEPT ![p] = RegExit(r, 0)]
           ELSE /\ routePlugins' = routePlugins
                /\ reg' = [reg EXCEPT ![p] = RegExit(r, 1)]
    /\ UNCHANGED <<hostenv, langsmith, vault, consumers, jiraComments,
                   orch, iss, pub, jira>>

\* one step of Registrar process p
RegistrarStep(p) ==
    \/ RegistrarMain(p)
    \/ \E ok \in BOOLEAN : RegistrarPut(p, ok)
    \/ \E ok \in BOOLEAN : RegistrarGet(p, ok)
    \/ \E ok \in BOOLEAN : RegistrarPatch(p, ok)

---------------------------------------------------------------------------
(* jira/auto_jira_comment.py : the ticket-comment script.                  *)

IssueKeys == {"ENG-1", "ENG-2"}
Comments  == {"done", "key shared"}

\* what requests.post can do: raise a RequestException, or return a status
JiraResponses ==
    {[raised |-> TRUE, status |-> 0]} \cup
    {[raised |-> FALSE, status |-> c] : c \in {201, 400, 401, 404, 500}}

JiraOff == [pc |-> "off", issue_key |-> "", email |-> "", comment_text |-> "",
            exit |-> -1, posted |-> FALSE, status |-> 0, runs |-> 0]

\* whether the comment request was accepted, line 65
jira_created(status) == status = 201

\* main + add_comment_to_jira_ticket, lines 17-21: the token check
JiraStart(issue_key, email, comment_text) ==
    /\ jira.pc \in {"off", "exited"}
    /\ jira.runs < MaxRuns
    /\ LET j == [JiraOff EXCEPT !.issue_key = issue_key, !.email = email,
                                !.comment_text = comment_text,
                                !.runs = jira.runs + 1]
       IN  jira' = IF Get(environ, "ATLASSIAN_API_KEY", "") = ""
                   THEN [j EXCEPT !.pc = "exited", !.exit = 1]
                   ELSE [j EXCEPT !.pc = "post"]
    /\ UNCHANGED <<hostenv, langsmith, vault, apisix, jiraComments,
                   orch, iss, pub, reg>>

\* add_comment_to_jira_ticket, lines 57-90: the POST and its handling.  Only
\* the RequestException branch calls sys.exit(1); after the status branches
\* the function returns and the script ends with exit code 0.
JiraPost(resp) ==
    /\ jira.pc = "post"
    /\ IF resp.raised
       THEN /\ jiraComments' = jiraComments
            /\ jira' = [jira EXCEPT !.pc = "exited", !.exit = 1]
       ELSE /\ jiraComments' =
                 IF jira_created(resp.status)
                 THEN Append(jiraComments, [issue |-> jira.issue_key,
                                            text  |-> jira.comment_text])
                 ELSE jiraComments
            /\ jira' = [jira EXCEPT !.pc = "exited", !.exit = 0,
                                    !.posted = jira_created(resp.status),
                                    !.status = resp.status]
    /\ UNCHANGED <<hostenv, langsmith, vault, apisix, orch, iss, pub, reg>>

---------------------------------------------------------------------------
(* main.py : the orchestrator.                                             *)

REQUIRED_ENV_VARS ==
    {"APISIX_ADMIN_API_KEY", "LANGSMITH_ADMIN_API_KEY", "LANGSMITH_ORG_ID"}

LG_AUTO_KEY_SCRIPT      == "lg/auto_key.py"
ONEPASSWORD_AUTO_SCRIPT == "1password/auto_1password.py"
APISIX_AUTO_SCRIPT      == "apisix/auto_as_add.py"

run_command_unchecked(returncode) == FALSE

\* run_command with check=True: whether it ends the orchestrator (exit 1)
run_command_exits(returncode) == returncode # 0

check_prerequisites_no_env(signedIn, env) == signedIn

\* check_prerequisites: `op whoami` succeeds and every required variable
\* is set to a non-empty value
check_prerequisites(signedIn, env) ==
    /\ signedIn
    /\ \A var \in REQUIRED_ENV_VARS : Get(env, var, "") # ""

\* stdout.strip().split('\n') on a list of printed lines: blank lines at
\* both ends go; splitting the empty string still yields one empty line
output_lines(stdout) ==
    LET keep == {i \in 1..Len(stdout) : stdout[i] # ""}
    IN  IF keep = {} THEN <<"">>
        ELSE LET lo == CHOOSE i \in keep : \A j \in keep : i <= j
                 hi == CHOOSE i \in keep : \A j \in keep : j <= i
             IN  SubSeq(stdout, lo, hi)

\* output_lines[-1]
last_line(lines) == lines[Len(lines)]

cmd_lg(branch_name) ==
    [script |-> LG_AUTO_KEY_SCRIPT, args |-> <<"-d", branch_name>>]

cmd_1p_swapped(branch_name, lg_key, email) ==
    [script |-> ONEPASSWORD_AUTO_SCRIPT, args |-> <<lg_key, branch_name, email>>]

cmd_1p(branch_name, lg_key, email) ==
    [script |-> ONEPASSWORD_AUTO_SCRIPT, args |-> <<branch_name, lg_key, email>>]

cmd_apisix(branch_name) ==
    [script |-> APISIX_AUTO_SCRIPT, args |-> <<branch_name>>]

\* issued is history: the branch names whose Issuer step succeeded in an
\* earlier run of the orchestrator
OrchOff == [pc |-> "idle", email |-> "", branch_name |-> "", lg_key |-> "",
            sharing_link |-> "", exit |-> -1, trace |-> <<>>, runs |-> 0,
            issued |-> {}]

Started(cmd)     == [ev |-> "start", script |-> cmd.script, args |-> cmd.args,
                     rc |-> -1]
Finished(cmd, rc) == [ev |-> "end", script |-> cmd.script, args |-> cmd.args,
                      rc |-> rc]

OrchExit(o, code) == [o EXCEPT !.pc = "exited", !.exit = code]

\* main, lines 107-115: arguments, then check_prerequisites
OrchStart(email, branch_name) ==
    /\ orch.pc \in {"idle", "exited"}
    /\ orch.runs < MaxRuns
    /\ LET o == [OrchOff EXCEPT !.email = email, !.branch_name = branch_name,
                                !.runs = orch.runs + 1,
                                !.issued = IF iss.pc = "exited" /\ iss.exit = 0
                                           THEN orch.issued \cup {orch.branch_name}
                                           ELSE orch.issued]
       IN  orch' = IF check_prerequisites(opSignedIn, environ)
                   THEN [o EXCEPT !.pc = "run_lg"]
                   ELSE OrchExit(o, 1)
    /\ iss' = IssOff
    /\ pub' = PubOff
    /\ reg' = [reg EXCEPT ![1] = RegOff]
    /\ UNCHANGED <<hostenv, langsmith, vault, apisix, jiraComments, jira>>

\* main, lines 117-119: the Issuer is started as a child process
InvokeIssuer ==
    /\ orch.pc = "run_lg"
    /\ LET cmd == cmd_lg(orch.branch_name)
       IN  /\ iss' = IssSpawn(cmd.args[2])
           /\ orch' = [orch EXCEPT !.pc = "wait_lg",
                                   !.trace = Append(@, Started(cmd))]
    /\ UNCHANGED <<hostenv, langsmith, vault, apisix, jiraComments,
                   pub, reg, jira>>

\* main, lines 119-128: run_command returns or exits; the key is the last
\* line of the Issuer's standard output
AfterIssuer ==
    /\ orch.pc = "wait_lg"
    /\ iss.pc = "exited"
    /\ LET o == [orch EXCEPT !.trace =
                    Append(@, Finished(cmd_lg(orch.branch_name), iss.exit))]
           output_lines_lg == output_lines(iss.stdout)
       IN  orch' = IF run_command_exits(iss.exit) THEN OrchExit(o, 1)
                   ELSE IF output_lines_lg # <<>>
                   THEN [o EXCEPT !.pc = "run_1p",
                                  !.lg_key = last_line(output_lines_lg)]
                   ELSE OrchExit(o, 1)
    /\ UNCHANGED <<hostenv, langsmith, vault, apisix, jiraComments,
                   iss, pub, reg, jira>>

\* main, lines 130-132: the Publisher is started as a child process
InvokePublisher ==
    /\ orch.pc = "run_1p"
    /\ LET cmd == cmd_1p(orch.branch_name, orch.lg_key, orch.email)
       IN  /\ pub' = PubSpawn(cmd.args[1], cmd.args[2], cmd.args[3])
           /\ orch' = [orch EXCEPT !.pc = "wait_1p",
                                   !.trace = Append(@, Started(cmd))]
    /\ UNCHANGED <<hostenv, langsmith, vault, apisix, jiraComments,
                   iss, reg, jira>>

\* main, lines 132-141: run_command returns or exits; the link is the last
\* line of the Publisher's standard output
AfterPublisher ==
    /\ orch.pc = "wait_1p"
    /\ pub.pc = "exited"
    /\ LET o == [orch EXCEPT !.trace = Append(@,
                    Finished(cmd_1p(orch.branch_name, orch.lg_key, orch.email),
                             pub.exit))]
           output_lines_1p == output_lines(pub.stdout)
       IN  orch' = IF run_command_exits(pub.exit) THEN OrchExit(o, 1)
                   ELSE IF output_lines_1p # <<>>
                   THEN [o EXCEPT !.pc = "run_apisix",
                                  !.sharing_link = last_line(output_lines_1p)]
                   ELSE OrchExit(o, 1)
    /\ UNCHANGED <<hostenv, langsmith, vault, apisix, jiraComments,
                   iss, pub, reg, jira>>

\* main, lines 143-145: the Registrar is started as a child process
InvokeRegistrar ==
    /\ orch.pc = "run_apisix"
    /\ LET cmd == cmd_apisix(orch.branch_name)
       IN  /\ reg' = [reg EXCEPT ![1] = RegSpawn(1, cmd.args[1])]
           /\ orch' = [orch EXCEPT !.pc = "wait_apisix",
                                   !.trace = Append(@, Started(cmd))]
    /\ UNCHANGED <<hostenv, langsmith, vault, apisix, jiraComments,
                   iss, pub, jira>>

\* main, lines 145-153: run_command returns or exits; the summary
AfterRegistrar ==
    /\ orch.pc = "wait_apisix"
    /\ reg[1].pc = "exited"
    /\ LET o == [orch EXCEPT !.trace = Append(@,
                    Finished(cmd_apisix(orch.branch_name),
                             reg[1].exit))]
       IN  orch' = IF run_command_exits(reg[1].exit) THEN OrchExit(o, 1)
                   ELSE OrchExit(o, 0)
    /\ UNCHANGED <<hostenv, langsmith, vault, apisix, jiraComments,
                   iss, pub, reg, jira>>

---------------------------------------------------------------------------
(* The scripts run on their own (each is independently invocable).         *)

StartIssuer(description) ==
    /\ iss.pc \in {"off", "exited"}
    /\ iss.runs < MaxRuns
    /\ iss' = IssSpawn(description)
    /\ UNCHANGED <<hostenv, langsmith, vault, apisix, jiraComments,
                   orch, pub, reg, jira>>

StartPublisher(branch_name, lg_key, share_to) ==
    /\ pub.pc \in {"off", "exited"}
    /\ pub.runs < PublisherRuns
    /\ pub' = PubSpawn(branch_name, lg_key, share_to)
    /\ UNCHANGED <<hostenv, langsmith, vault, apisix, jiraComments,
                   orch, iss, reg, jira>>

StartRegistrar(p, consumer_name) ==
    /\ reg[p].pc \in {"off", "exited"}
    /\ reg[p].runs < MaxRuns
    /\ reg' = [reg EXCEPT ![p] = RegSpawn(p, consumer_name)]
    /\ UNCHANGED <<hostenv, langsmith, vault, apisix, jiraComments,
                   orch, iss, pub, jira>>

---------------------------------------------------------------------------
(* Initial states: what the external systems can hold before a run.        *)

\* every assignment of "", a value, or nothing to the variables of names
Environs(names) == UNION {[D -> {"", "v"}] : D \in SUBSET names}

TargetWorkspace == [display_name |-> WORKSPACE_NAME, id |-> "ws-1"]
OtherWorkspace  == [display_name |-> "other", id |-> "ws-0"]
TwinWorkspace   == [display_name |-> WORKSPACE_NAME, id |-> "ws-2"]

WorkspaceLists ==
    {<<>>, <<OtherWorkspace>>, <<OtherWorkspace, TargetWorkspace>>,
     <<TargetWorkspace, TwinWorkspace>>}

WorkspaceRole == [name |-> "WORKSPACE_USER", access_scope |-> "workspace",
                  id |-> "role-ws"]
OrgScopedRole == [name |-> "WORKSPACE_USER", access_scope |-> "organization",
                  id |-> "role-org"]
AdminRole     == [name |-> "WORKSPACE_ADMIN", access_scope |-> "workspace",
                  id |-> "role-admin"]

RoleLists == {<<OrgScopedRole, WorkspaceRole>>, <<AdminRole, OrgScopedRole>>}

OldKey(description, n) == NewKey(description, "ws-1", "role-ws", "lsv2_old", n)

KeyLists ==
    {<<>>, <<OldKey("feature-42", 1)>>,
     <<OldKey("other", 1), OldKey("alice", 2)>>}

Whitelists == {w \in SeqsUpTo(Usernames, MaxWhitelist) : NoDup(w)}

KeyAuthPlugin == "key-auth" :> [header |-> "apikey"]

Restriction(whitelist) ==
    "consumer-restriction" :>
        (("whitelist" :> whitelist) @@ ("type" :> "consumer_name"))

\* plugin blocks a route can carry: with an allow-list, with a
\* consumer-restriction entry that has no allow-list, without the entry
Routes ==
    {Restriction(w) @@ KeyAuthPlugin : w \in Whitelists} \cup
    {("consumer-restriction" :> ("type" :> "consumer_name")) @@ KeyAuthPlugin,
     KeyAuthPlugin, EmptyDict}

ProcsOff ==
    /\ orch = OrchOff
    /\ iss = IssOff
    /\ pub = PubOff
    /\ reg = [p \in RegProcs |-> RegOff]
    /\ jira = JiraOff

World(envs, wss, rls, kls, rts) ==
    /\ environ \in envs
    /\ opSignedIn \in BOOLEAN
    /\ workspaces \in wss
    /\ roles \in rls
    /\ apiKeys \in kls
    /\ vaultItems = <<>>
    /\ shareLinks = <<>>
    /\ consumers = EmptyDict
    /\ routePlugins \in rts
    /\ jiraComments = <<>>

AllSet == [v \in REQUIRED_ENV_VARS |-> "v"]

\* what the orchestrator runs start from
OrchRoutes == {Restriction(<<"alice">>) @@ KeyAuthPlugin, KeyAuthPlugin}

OrchWorkspaces == {<<OtherWorkspace>>, <<OtherWorkspace, TargetWorkspace>>}

OrchKeys == {<<>>, <<OldKey("feature-42", 1)>>}

---------------------------------------------------------------------------
(* Spec: orchestrator runs, one after the other, with their children.      *)

Init ==
    /\ World(Environs(REQUIRED_ENV_VARS), OrchWorkspaces, RoleLists, OrchKeys,
             OrchRoutes)
    /\ ProcsOff

Next ==
    \/ \E e \in Emails, b \in Branches : OrchStart(e, b)
    \/ InvokeIssuer
    \/ IssuerStep
    \/ AfterIssuer
    \/ InvokePublisher
    \/ PublisherStep(OrchOutTokens)
    \/ AfterPublisher
    \/ InvokeRegistrar
    \/ RegistrarStep(1)
    \/ AfterRegistrar

Spec == Init /\ [][Next]_vars

(* SpecIssuer: runs of lg/auto_key.py on its own.                          *)

InitIssuer ==
    /\ World(Environs({"LANGSMITH_ADMIN_API_KEY", "LANGSMITH_ORG_ID"}),
             WorkspaceLists, RoleLists, KeyLists, {KeyAuthPlugin})
    /\ ProcsOff

NextIssuer ==
    \/ \E d \in Branches : StartIssuer(d)
    \/ IssuerStep

SpecIssuer == InitIssuer /\ [][NextIssuer]_vars

(* SpecPublisher: runs of 1password/auto_1password.py on its own.          *)

InitPublisher ==
    /\ World({AllSet}, {<<>>}, {<<>>}, {<<>>}, {KeyAuthPlugin})
    /\ ProcsOff

NextPublisher ==
    \/ \E b \in Branches, k \in KeyValues, e \in Emails : StartPublisher(b, k, e)
    \/ PublisherStep(MaxOutTokens)

SpecPublisher == InitPublisher /\ [][NextPublisher]_vars

(* SpecRegistrar: runs of apisix/auto_as_add.py, two at a time.            *)

InitRegistrar ==
    /\ World(Environs({"APISIX_ADMIN_API_KEY"}), {<<>>}, {<<>>}, {<<>>}, Routes)
    /\ ProcsOff

NextRegistrar ==
    \/ \E p \in RegProcs, u \in Usernames : StartRegistrar(p, u)
    \/ \E p \in RegProcs : RegistrarStep(p)

SpecRegistrar == InitRegistrar /\ [][NextRegistrar]_vars

(* SpecJira: runs of jira/auto_jira_comment.py.                            *)

InitJira ==
    /\ World(Environs({"ATLASSIAN_API_KEY"}), {<<>>}, {<<>>}, {<<>>},
             {KeyAuthPlugin})
    /\ ProcsOff

NextJira ==
    \/ \E k \in IssueKeys, e \in Emails, c \in Comments : JiraStart(k, e, c)
    \/ \E resp \in JiraResponses : JiraPost(resp)

SpecJira == InitJira /\ [][NextJira]_vars

---------------------------------------------------------------------------
(* Properties of the orchestrator (Spec).                                  *)

\* the start events of script in the orchestrator's trace
Starts(script) ==
    {i \in 1..Len(orch.trace) :
        orch.trace[i].ev = "start" /\ orch.trace[i].script = script}

HasKey(description, key) ==
    \E i \in 1..Len(apiKeys) :
        apiKeys[i].description = description /\ apiKeys[i].key = key

HasItem(title, password) ==
    \E i \in 1..Len(vaultItems) :
        vaultItems[i] = [title |-> title, password |-> password]

HasLink(item, emails) ==
    \E i \in 1..Len(shareLinks) :
        shareLinks[i] = [item |-> item, emails |-> emails]

\* C1: a run in which every step succeeds starts the Issuer (-d b), then the
\* Publisher (b, the key on the last line of the Issuer's output, e), then
\* the Registrar (b), once each and in that order; a step is started only
\* after the step before it has finished.
C1_StepsInOrder ==
    /\ pub.pc # "off" => iss.pc = "exited"
    /\ reg[1].pc # "off" => pub.pc = "exited"
    /\ (orch.pc = "exited" /\ orch.exit = 0) =>
         LET b == orch.branch_name
             e == orch.email
             k == iss.stdout[Len(iss.stdout)]
             t == orch.trace
         IN  /\ Len(t) = 6
             /\ t[1] = [ev |-> "start", script |-> "lg/auto_key.py",
                        args |-> <<"-d", b>>, rc |-> -1]
             /\ t[2] = [t[1] EXCEPT !.ev = "end", !.rc = 0]
             /\ t[3] = [ev |-> "start", script |-> "1password/auto_1password.py",
                        args |-> <<b, k, e>>, rc |-> -1]
             /\ t[4] = [t[3] EXCEPT !.ev = "end", !.rc = 0]
             /\ t[5] = [ev |-> "start", script |-> "apisix/auto_as_add.py",
                        args |-> <<b>>, rc |-> -1]
             /\ t[6] = [t[5] EXCEPT !.ev = "end", !.rc = 0]
             /\ iss.description = b
             /\ pub.branch_name = b /\ pub.lg_key = k /\ pub.share_to = e
             /\ reg[1].username = b
             /\ HasKey(b, k) /\ HasItem(b, k)

C1_Witness ==
    /\ orch.pc = "exited" /\ orch.exit = 0
    /\ orch.branch_name = "feature-42" /\ orch.email = "a@x.com"
    /\ pub.lg_key = "lsv2_a" /\ reg[1].username = "feature-42"
    /\ Len(orch.trace) = 6

\* C2: a step that exits non-zero is the last thing the run does: the
\* orchestrator exits 1, no later step is started, and what the completed
\* steps created (the key, the vault item and its link, the consumer) is
\* still there.
C2_AbortKeepsRecords ==
    /\ \A i \in 1..Len(orch.trace) :
          (orch.trace[i].ev = "end" /\ orch.trace[i].rc # 0) =>
              /\ i = Len(orch.trace)
              /\ orch.pc = "exited" /\ orch.exit = 1
    /\ (iss.pc = "exited" /\ iss.exit # 0) =>
          pub.pc = "off" /\ reg[1].pc = "off"
    /\ (pub.pc = "exited" /\ pub.exit # 0) => reg[1].pc = "off"
    /\ (iss.pc = "exited" /\ iss.exit = 0) =>
          HasKey(iss.description, iss.stdout[1])
    /\ (pub.pc = "exited" /\ pub.exit = 0) =>
          /\ HasItem(pub.branch_name, pub.lg_key)
          /\ HasLink(pub.ITEM_ID, pub.share_to)
    /\ (reg[1].pc = "exited" /\ reg[1].exit = 0) =>
          /\ reg[1].username \in DOMAIN consumers
          /\ consumers[reg[1].username].username = reg[1].username

C2_Witness ==
    /\ orch.pc = "exited" /\ orch.exit = 1
    /\ iss.exit = 0 /\ pub.exit = 0 /\ reg[1].exit = 1
    /\ HasKey(orch.branch_name, orch.lg_key)
    /\ HasItem(orch.branch_name, orch.lg_key)

GateFails ==
    \/ ~opSignedIn
    \/ \E var \in {"APISIX_ADMIN_API_KEY", "LANGSMITH_ADMIN_API_KEY",
                   "LANGSMITH_ORG_ID"} :
          var \notin DOMAIN environ \/ environ[var] = ""

\* C3: when op is not signed in or one of the three variables is unset or
\* empty, a run ends with exit code 1 before any step: no child process is
\* started and no external system is changed.
C3_GateBeforeMutation ==
    GateFails =>
        /\ orch.pc = "idle" \/ (orch.pc = "exited" /\ orch.exit = 1)
        /\ orch.trace = <<>>
        /\ iss.pc = "off" /\ pub.pc = "off" /\ reg[1].pc = "off"
        /\ apiKeys \in OrchKeys
        /\ vaultItems = <<>> /\ shareLinks = <<>>
        /\ consumers = EmptyDict
        /\ routePlugins \in OrchRoutes

C3_Witness ==
    /\ opSignedIn
    /\ "LANGSMITH_ORG_ID" \in DOMAIN environ /\ environ["LANGSMITH_ORG_ID"] = ""
    /\ ADMIN_API_KEY(environ) = "v"
    /\ orch.pc = "exited" /\ orch.exit = 1 /\ orch.runs = 1

\* the standard output holds nothing but blank lines
Blank(stdout) == \A i \in 1..Len(stdout) : stdout[i] = ""

\* C13: the Publisher is started only with a non-empty key and the
\* Registrar only after a non-empty share link was captured; an Issuer
\* that exits 0 with blank standard output makes the orchestrator exit 1
\* with neither Publisher nor Registrar started, and a Publisher that exits
\* 0 with blank standard output makes it exit 1 with no Registrar started.
C13_NonEmptyCaptures ==
    /\ pub.pc # "off" => pub.lg_key # ""
    /\ reg[1].pc # "off" => orch.sharing_link # ""
    /\ (iss.pc = "exited" /\ iss.exit = 0 /\ Blank(iss.stdout)
          /\ orch.pc # "wait_lg") =>
          /\ orch.pc = "exited" /\ orch.exit = 1
          /\ pub.pc = "off" /\ reg[1].pc = "off"
    /\ (pub.pc = "exited" /\ pub.exit = 0 /\ Blank(pub.stdout)
          /\ orch.pc # "wait_1p") =>
          /\ orch.pc = "exited" /\ orch.exit = 1
          /\ reg[1].pc = "off"

---------------------------------------------------------------------------
(* Properties of the Issuer (SpecIssuer).                                  *)

Posted ==
    \E i \in 1..Len(iss.reqs) : iss.reqs[i] = <<"POST", "/api/v1/api-key">>

NoTargetWorkspace ==
    \A i \in 1..Len(workspaces) : workspaces[i].display_name # "nsagent-users"

\* C4: when no workspace is named nsagent-users, an Issuer run never posts
\* to the api-key endpoint, leaves the keys as they were and exits 1.
C4_NoWorkspaceNoCreate ==
    (NoTargetWorkspace /\ iss.pc # "off") =>
        /\ ~Posted
        /\ apiKeys = iss.keys0
        /\ iss.stdout = <<>>
        /\ iss.pc = "exited" => iss.exit = 1
        /\ iss.pc \in {"main", "workspace_exists", "exited"}

C4_Witness ==
    /\ workspaces = <<OtherWorkspace>>
    /\ iss.pc = "exited" /\ iss.exit = 1
    /\ iss.reqs = <<<<"GET", "/api/v1/workspaces">>>>

KeysWith(keys, description) ==
    {i \in 1..Len(keys) : keys[i].description = description}

\* C5: when a key with the run's description exists already, the Issuer
\* never posts to the api-key endpoint, prints nothing, exits 1, and the
\* number of keys with that description stays as it was.
C5_DuplicateRefused ==
    (iss.pc # "off" /\ KeysWith(iss.keys0, iss.description) # {}) =>
        /\ ~Posted
        /\ iss.stdout = <<>>
        /\ iss.pc = "exited" => iss.exit = 1
        /\ Cardinality(KeysWith(apiKeys, iss.description)) =
           Cardinality(KeysWith(iss.keys0, iss.description))

C5_Witness ==
    /\ iss.pc = "exited" /\ iss.exit = 1
    /\ iss.description = "alice"
    /\ KeysWith(iss.keys0, "alice") # {}
    /\ Len(iss.reqs) = 2 /\ iss.reqs[2] = <<"GET", "/api/v1/api-key">>

\* the four requests of a complete Issuer run, in their order
IssuerSteps ==
    << <<"GET", "/api/v1/workspaces">>, <<"GET", "/api/v1/api-key">>,
       <<"GET", "/api/v1/orgs/current/roles">>, <<"POST", "/api/v1/api-key">> >>

\* the roles of the org that grant workspace-scoped membership
MemberRoles ==
    {i \in 1..Len(roles) : /\ roles[i].name = "WORKSPACE_USER"
                           /\ roles[i].access_scope = "workspace"}

\* the workspaces named nsagent-users
TargetWorkspaces ==
    {i \in 1..Len(workspaces) : workspaces[i].display_name = "nsagent-users"}

\* C11: the Issuer's requests are a prefix of workspace lookup, key lookup,
\* role lookup, key creation; the creation request is sent only when the
\* workspace exists, no key has the description and a WORKSPACE_USER role
\* of scope workspace exists; without such a role the run exits 1 with no
\* creation request; the key of a successful run carries the description,
\* the id of the first such workspace and the id of the first such role.
C11_OrderedSteps ==
    /\ Len(iss.reqs) <= 4
    /\ \A i \in 1..Len(iss.reqs) : iss.reqs[i] = IssuerSteps[i]
    /\ Posted =>
          /\ TargetWorkspaces # {}
          /\ KeysWith(iss.keys0, iss.description) = {}
          /\ MemberRoles # {}
    /\ (MemberRoles = {} /\ iss.pc # "off") =>
          /\ ~Posted
          /\ apiKeys = iss.keys0
          /\ iss.pc = "exited" => iss.exit = 1
    /\ (iss.pc = "exited" /\ iss.exit = 0) =>
          /\ Posted
          /\ Len(apiKeys) = Len(iss.keys0) + 1
          /\ LET k == apiKeys[Len(apiKeys)]
                 w == CHOOSE i \in TargetWorkspaces :
                          \A j \in TargetWorkspaces : i <= j
                 m == CHOOSE i \in MemberRoles : \A j \in MemberRoles : i <= j
             IN  /\ k.description = iss.description
                 /\ k.workspaces = <<workspaces[w].id>>
                 /\ k.role_id = roles[m].id

C11_Witness ==
    /\ roles = <<AdminRole, OrgScopedRole>>
    /\ iss.pc = "exited" /\ iss.exit = 1
    /\ Len(iss.reqs) = 3
    /\ iss.reqs[3] = <<"GET", "/api/v1/orgs/current/roles">>
    /\ apiKeys = iss.keys0

---------------------------------------------------------------------------
(* Repeated orchestrator runs for one branch name (Spec).                  *)

\* C14: once the Issuer step of a run for branch name b has succeeded, no
\* later run for b gets past the Issuer step: its Issuer sends no creation
\* request and exits 1, the orchestrator exits 1 right after the Issuer
\* with neither Publisher nor Registrar started; and no description is ever
\* carried by more than one key.
C14_OnlyOneIssue ==
    /\ orch.branch_name \in orch.issued =>
          /\ orch.pc \in {"run_lg", "wait_lg", "exited"}
          /\ pub.pc = "off" /\ reg[1].pc = "off"
          /\ ~Posted
          /\ iss.pc = "exited" => iss.exit = 1
          /\ orch.pc = "exited" =>
                /\ orch.exit = 1
                /\ orch.trace = <<Started(cmd_lg(orch.branch_name)),
                                  Finished(cmd_lg(orch.branch_name), 1)>>
    /\ \A b \in Branches : Cardinality(KeysWith(apiKeys, b)) <= 1

\* the second run for alice stops at the Issuer although the first, which
\* got the key, never registered the consumer
C14_Witness ==
    /\ orch.runs = 2 /\ orch.branch_name = "alice"
    /\ "alice" \in orch.issued
    /\ orch.pc = "exited" /\ orch.exit = 1
    /\ iss.pc = "exited" /\ Len(iss.reqs) = 2
    /\ Cardinality(KeysWith(apiKeys, "alice")) = 1
    /\ consumers = EmptyDict

---------------------------------------------------------------------------
(* Properties of the Registrar (SpecRegistrar).                            *)

\* the requests of run r with one of the given methods
Reqs(r, methods) == {i \in 1..Len(r.reqs) : r.reqs[i].method \in methods}

\* the run fetched a route whose allow-list holds its username
FetchedWithUser(r) == InList(r.username, old_whitelist(r.existing_plugins))

\* C6 as stated: a run that finds its username in the route's allow-list
\* issues no write request at all and exits 0.
C6_NoWriteRequest ==
    \A p \in RegProcs :
        FetchedWithUser(reg[p]) =>
            /\ reg[p].pc = "exited" /\ reg[p].exit = 0
            /\ Reqs(reg[p], {"PUT", "PATCH", "POST", "DELETE"}) = {}

\* C6 amended: a run that finds its username in the route's allow-list
\* issues no route write (no PATCH) and exits 0; its only write request is
\* the consumer upsert PUT, sent before the route is read.
C6_NoRouteWrite ==
    \A p \in RegProcs :
        FetchedWithUser(reg[p]) =>
            /\ reg[p].pc = "exited" /\ reg[p].exit = 0
            /\ Reqs(reg[p], {"PATCH", "POST", "DELETE"}) = {}
            /\ Reqs(reg[p], {"PUT"}) = {1}
            /\ reg[p].reqs[1].target = "consumers"
            /\ Reqs(reg[p], {"GET"}) = {2}

C6_Witness ==
    \E p \in RegProcs :
        /\ reg[p].username = "alice"
        /\ old_whitelist(reg[p].existing_plugins) = <<"bob", "alice">>
        /\ reg[p].pc = "exited" /\ reg[p].exit = 0
        /\ Len(reg[p].reqs) = 2

\* the fetched plugin block carries an allow-list without the username
FetchedWithout(r) ==
    /\ "consumer-restriction" \in DOMAIN r.existing_plugins
    /\ "whitelist" \in DOMAIN r.existing_plugins["consumer-restriction"]
    /\ ~InList(r.username, r.existing_plugins["consumer-restriction"]["whitelist"])

\* Q is P with u appended to the allow-list and nothing else changed
AppendedOnly(P, Q, u) ==
    /\ DOMAIN Q = DOMAIN P
    /\ \A name \in DOMAIN P \ {"consumer-restriction"} : Q[name] = P[name]
    /\ DOMAIN Q["consumer-restriction"] = DOMAIN P["consumer-restriction"]
    /\ \A field \in DOMAIN P["consumer-restriction"] \ {"whitelist"} :
          Q["consumer-restriction"][field] = P["consumer-restriction"][field]
    /\ Q["consumer-restriction"]["whitelist"] =
          Append(P["consumer-restriction"]["whitelist"], u)

\* C7: a run that fetched plugin block P whose allow-list lacks u sends
\* exactly one route write, and its plugin block is P with u appended to the
\* allow-list: every other plugin and every other field is as fetched.
C7_FullBlockWrite ==
    \A p \in RegProcs :
        FetchedWithout(reg[p]) =>
            /\ reg[p].pc \in {"patch", "exited"}
            /\ reg[p].pc = "patch" =>
                  /\ Reqs(reg[p], {"PATCH"}) = {}
                  /\ AppendedOnly(reg[p].existing_plugins,
                                  reg[p].patch.plugins, reg[p].username)
            /\ reg[p].pc = "exited" =>
                  /\ Reqs(reg[p], {"PATCH"}) = {3}
                  /\ reg[p].reqs[3].target = "routes"
                  /\ DOMAIN reg[p].reqs[3].body = {"plugins"}
                  /\ AppendedOnly(reg[p].existing_plugins,
                                  reg[p].reqs[3].body.plugins, reg[p].username)

C7_Witness ==
    \E p \in RegProcs :
        /\ reg[p].username = "alice"
        /\ reg[p].existing_plugins = Restriction(<<"bob">>) @@ KeyAuthPlugin
        /\ reg[p].pc = "exited" /\ reg[p].exit = 0
        /\ routePlugins = Restriction(<<"bob", "alice">>) @@ KeyAuthPlugin

\* two runs, one per process and no other, for distinct usernames, both
\* ended with exit code 0
TwoRunsExited ==
    /\ \A p \in RegProcs :
          /\ reg[p].runs = 1
          /\ reg[p].pc = "exited" /\ reg[p].exit = 0
    /\ reg[1].username # reg[2].username

\* two such runs on a route that carries a consumer-restriction entry
TwoRunsDone ==
    /\ TwoRunsExited
    /\ \A p \in RegProcs :
          "consumer-restriction" \in DOMAIN reg[p].existing_plugins

Raced == \E p \in RegProcs : reg[p].raced

\* the allow-list of a plugin block, empty when the block has none
AllowList(plugins) ==
    IF "consumer-restriction" \in DOMAIN plugins
       /\ "whitelist" \in DOMAIN plugins["consumer-restriction"]
    THEN plugins["consumer-restriction"]["whitelist"]
    ELSE <<>>

\* C9: of two Registrar runs for distinct usernames that both exit 0, the
\* final allow-list holds exactly one of the two usernames when both GETs
\* came before either PATCH, and both usernames when the GET-PATCH windows
\* did not overlap.
C9_OneOrBoth ==
    TwoRunsExited =>
        LET final == AllowList(routePlugins)
            u1 == reg[1].username
            u2 == reg[2].username
        IN  /\ Raced => (InList(u1, final) /\ ~InList(u2, final))
                        \/ (InList(u2, final) /\ ~InList(u1, final))
            /\ ~Raced => InList(u1, final) /\ InList(u2, final)

\* C9 on routes that carry a consumer-restriction entry: there the final
\* allow-list holds one of the two usernames after a race and both
\* otherwise.
C9_LostUpdate ==
    TwoRunsDone =>
        LET final == old_whitelist(routePlugins)
            u1 == reg[1].username
            u2 == reg[2].username
        IN  /\ Raced => (InList(u1, final) /\ ~InList(u2, final))
                        \/ (InList(u2, final) /\ ~InList(u1, final))
            /\ ~Raced => InList(u1, final) /\ InList(u2, final)

C9_Witness ==
    /\ TwoRunsDone
    /\ Raced
    /\ reg[1].username = "alice" /\ reg[2].username = "bob"
    /\ Len(reg[1].reqs) = 3 /\ Len(reg[2].reqs) = 3
    /\ old_whitelist(routePlugins) = <<"feature-42", "bob">>

\* the run of process p is the only Registrar activity there has been
LoneRun(p) == \A q \in RegProcs \ {p} : reg[q].runs = 0

\* C12: whatever the route's plugin block was, every route write of a
\* Registrar run for u carries u in the allow-list of its plugin block, and
\* a run that exits 0 with no other writer leaves u in the route's
\* allow-list.
C12_UserAllowed ==
    \A p \in RegProcs :
        /\ \A i \in Reqs(reg[p], {"PATCH"}) :
              InList(reg[p].username, AllowList(reg[p].reqs[i].body.plugins))
        /\ (LoneRun(p) /\ reg[p].pc = "exited" /\ reg[p].exit = 0) =>
              InList(reg[p].username, AllowList(routePlugins))

---------------------------------------------------------------------------
(* Properties of the ticket-comment script (SpecJira).                     *)

\* C8: a script exits 0 exactly when its operation succeeded; here for
\* jira/auto_jira_comment.py, whose operation is the creation of the comment.
C8_ExitCodes ==
    jira.pc = "exited" => (jira.exit = 0 <=> jira.posted)

---------------------------------------------------------------------------
(* Properties of the Publisher (SpecPublisher).                            *)

\* the positions at which a line of text begins
LineStarts(text) == {i \in 1..Len(text) : i = 1 \/ text[i - 1] = "\n"}

\* the last position of the line that begins at i
LineEnd(text, i) == SkipWhile(text, i, {"I", "D", ":", "a", " ", "-"}) - 1

\* the lines that begin with ID:
IdLines(text) ==
    {i \in LineStarts(text) :
        i + 2 <= Len(text) /\ Slice(text, i, i + 2) = <<"I", "D", ":">>}

\* what follows ID: on the first such line, without surrounding blanks
IdentifierOnLine(text) ==
    LET i == CHOOSE x \in IdLines(text) : \A y \in IdLines(text) : x <= y
    IN  strip(Slice(text, i + 3, LineEnd(text, i)))

Shares == {i \in 1..Len(pub.cmds) : pub.cmds[i].op = "item share"}

\* C10: a share request is sent only after the create command succeeded,
\* for the identifier on the identifier line of its output; an output
\* without identifier line ends the run with exit code 1, no share request
\* and no link printed, the created item still in the vault.
C10_ShareUsesIdentifier ==
    /\ \A i \in Shares :
          /\ i = 2 /\ pub.cmds[1].op = "item create" /\ pub.created
          /\ IdLines(pub.create_output) # {}
          /\ pub.cmds[i].item = IdentifierOnLine(pub.create_output)
    /\ (pub.created /\ IdLines(pub.create_output) = {}) =>
          /\ pub.pc = "exited" /\ pub.exit = 1
          /\ Shares = {}
          /\ pub.stdout = <<>>
          /\ HasItem(pub.branch_name, pub.lg_key)

=============================================================================
